---- MODULE Spec2Model ----
(***************************************************************************)
(* Model of the LawBuddy real-time messaging core:                         *)
(*   - EnhancedChatService      (Backend/app/services/chat_service.py)     *)
(*   - ConnectionManager        (Backend/app/websocket/manager.py)         *)
(*   - the WebSocket endpoint, its handlers and the generation             *)
(*     orchestrator             (Backend/app/api/v1/websocket.py)          *)
(*                                                                         *)
(* The document store is modelled as the sequence of message documents in  *)
(* insertion order (a message id is its index) and the sequence of chat    *)
(* documents.  Text is modelled as a sequence of tokens; string            *)
(* concatenation is \o.                                                    *)
(*                                                                         *)
(* Specifications, all over the same variables:                            *)
(*   Spec          the lifecycle methods of one EnhancedChatService called *)
(*                 by any caller, store updates succeeding or failing      *)
(*   SpecOrch      generate_ai_response_with_streaming, one action per     *)
(*                 await, and handle_cancel_generation as tasks that share *)
(*                 active_generations and one EnhancedChatService          *)
(*   SpecBranch    regenerate / edit, fork, switch and the active view     *)
(*   SpecRegistry  ConnectionManager driven by the endpoint and the REST   *)
(*                 routes                                                  *)
(*   SpecEndpoint  SpecRegistry's callers with handle_send_message         *)
(*   SpecStream    the orchestrator, its cancel handler and direct calls   *)
(*                 on the one stream of a chat, several chunks             *)
(*   SpecAppend    the lifecycle methods called directly on the one        *)
(*                 message of a chat, several chunks                       *)
(*   SpecCreate    chats created and deleted, messages created in them     *)
(*   SpecOwner     the methods that check the owner, called by any user    *)
(*   SpecEngine    the orchestrator on both engine paths, room members     *)
(*   SpecAuth      accepted and rejected connections and the registry      *)
(*   SpecLoop      the message loop of one connection, one handler at a    *)
(*                 time                                                    *)
(*   SpecDisconnect  the endpoint task after its client has gone (fair)    *)
(*   SpecBroadcast a broadcast with other tasks running at its awaits      *)
(*   SpecAttach    messages sent over a connection and regenerations       *)
(*   SpecGone      the orchestrator and the endpoint's disconnect branch   *)
(***************************************************************************)
EXTENDS Integers, Sequences, FiniteSets, TLC

\* ---------------------------------------------------------------- bounds
MaxMessages == 2
MaxBranchMessages == 3
MaxChunks == 1
MaxStreamChunks == 2

\* ------------------------------------------------------------- constants
Users == {"alice", "bob"}
ChatIds == {1}
ConnIds == {1, 2, 3}
ChunkTexts == {"x", "y"}
\* identity authenticated by each connection's token (get_websocket_user)
ConnUser(c) == IF c = 2 THEN "bob" ELSE "alice"

\* MessageStatus (models/chat.py)
PENDING == "pending"
STREAMING == "streaming"
COMPLETE == "complete"
FAILED == "failed"
CANCELLED == "cancelled"
Terminal == {COMPLETE, FAILED, CANCELLED}

USER == "user"
ASSISTANT == "assistant"

VARIABLES
    messages,            \* messages collection, in insertion order
    chat_sessions,       \* chat_sessions collection, in insertion order
    pending_messages,    \* EnhancedChatService.pending_messages   (key set)
    streaming_messages,  \* EnhancedChatService.streaming_messages (key set)
    active_generations,  \* the endpoint's active_generations dict (its key set)
    gen,                 \* per stream id: position and locals of generate_ai_response_with_streaming
    active_connections,  \* ConnectionManager.active_connections: user -> set of connection ids
    chat_rooms,          \* ConnectionManager.chat_rooms: chat -> (user -> connection id)
    connection_users,    \* ConnectionManager.connection_users: connection id -> user
    sock,                \* per connection: state of the endpoint coroutine / transport
    switching,           \* position and locals of a switch_conversation_branch call in flight
    broadcasting,        \* position and locals of a broadcast_to_chat call in flight
    last,                \* the last call: operation, arguments, result, events sent
    hist                 \* history of the run, kept to state properties

storeVars == <<messages, chat_sessions>>
svcVars == <<pending_messages, streaming_messages>>
genVars == <<active_generations, gen>>
regVars == <<active_connections, chat_rooms, connection_users, sock>>
brVars == <<switching, broadcasting>>
vars == <<messages, chat_sessions, pending_messages, streaming_messages,
          active_generations, gen, active_connections, chat_rooms,
          connection_users, sock, switching, broadcasting, last, hist>>

\* ---------------------------------------------------------------- helpers
\* A stream id is a fresh uuid generated with its message; the id of that
\* message stands for it, so a tracking dict is modelled by its key set and
\* the "message_id" stored under a key is the key's message.
TrackedMessage(stream_id) == stream_id

MsgIds == 1..MaxMessages

\* The state the service methods read and write, as one value: the two
\* collections, the two tracking dicts of one EnhancedChatService instance, and
\* the call's outcome: err names the exception raised ("" when
\* none), ret is the value returned.
World == [messages |-> messages, chat_sessions |-> chat_sessions,
          pending_messages |-> pending_messages,
          streaming_messages |-> streaming_messages,
          err |-> "", ret |-> "none"]

\* A fresh EnhancedChatService(db): same collections, empty tracking dicts.
FreshService(w) == [w EXCEPT !.pending_messages = {}, !.streaming_messages = {}]

\* ------------------------------------------------- pydantic validators
\* A text is a sequence of tokens; " " is a token of whitespace.
\* str.strip() without the removal: the mutant of strip.
strip_keeps_blanks(s) == s

\* str.strip(): the text without its leading and trailing whitespace.
RECURSIVE strip(_)
strip(s) ==
    IF s = <<>> THEN s
    ELSE IF Head(s) = " " THEN strip(Tail(s))
    ELSE IF s[Len(s)] = " " THEN strip(SubSeq(s, 1, Len(s) - 1))
    ELSE s

\* MessageCreate.content_must_not_be_empty: empty (or blank) content is rejected.
MessageCreateValid(content) == content # <<>> /\ strip(content) # <<>>

\* Message.content_must_not_be_empty_for_complete_messages.  The validator
\* reads info.data["status"], but `status` is declared after `content`, so it
\* is not yet in info.data when `content` is validated: the exemption for
\* pending/streaming messages never applies and empty content is rejected.
MessageValid(doc) == doc.content # <<>>

\* ------------------------------------------------------ chat sessions
\* get_chat_session without the filter on the status.
get_chat_session_any_status(w, chat_id, user) ==
    /\ chat_id \in DOMAIN w.chat_sessions
    /\ w.chat_sessions[chat_id].user_id = user

\* get_chat_session: the chat must exist, be owned by the caller and not deleted.
get_chat_session(w, chat_id, user) ==
    /\ chat_id \in DOMAIN w.chat_sessions
    /\ w.chat_sessions[chat_id].user_id = user
    /\ w.chat_sessions[chat_id].status # "deleted"

\* create_chat_session without initial message.
create_chat_session(w, user) ==
    [w EXCEPT !.chat_sessions = Append(@, [user_id |-> user, status |-> "active",
                                           message_count |-> 0]),
              !.ret = Len(w.chat_sessions) + 1]

\* _update_chat_metadata (called for user messages; its definition is not in
\* the sources): the session aggregate counts the message.
update_chat_metadata(w, chat_id) ==
    [w EXCEPT !.chat_sessions[chat_id].message_count = @ + 1]

\* _update_chat_metadata_with_ai_response: $inc metadata.message_count by 1.
update_chat_metadata_with_ai_response(w, chat_id) ==
    [w EXCEPT !.chat_sessions[chat_id].message_count = @ + 1]

\* ------------------------------------------------ message lifecycle
NewMessage(chat_id, user, role) ==
    [chat_session_id |-> chat_id, user_id |-> user, role |-> role,
     content |-> <<>>, status |-> PENDING, partial_content |-> <<>>,
     final_content |-> <<>>, version |-> 1, parent_message_id |-> 0,
     child_message_ids |-> <<>>, branch_id |-> 0, is_active_branch |-> FALSE,
     stream_id |-> 0]

\* create_pending_message.  The stream id is a fresh uuid: the new message's
\* id stands for it.  The Message built for the return value is validated
\* after the insert and the tracking.
create_pending_message(w, chat_id, user, role, content) ==
    IF ~get_chat_session(w, chat_id, user) THEN [w EXCEPT !.err = "NotFound"]
    ELSE
    LET id == Len(w.messages) + 1
        base == [NewMessage(chat_id, user, role) EXCEPT !.stream_id = id]
        doc == IF role = USER
               THEN [base EXCEPT !.content = content, !.status = COMPLETE,
                                 !.final_content = content]
               ELSE base
        w1 == [w EXCEPT !.messages = Append(@, doc)]
        w2 == IF role = ASSISTANT
              THEN [w1 EXCEPT !.pending_messages = @ \cup {id}]
              ELSE w1
        w3 == IF role = USER THEN update_chat_metadata(w2, chat_id) ELSE w2
    IN  IF MessageValid(doc) THEN [w3 EXCEPT !.ret = id]
        ELSE [w3 EXCEPT !.err = "ValidationError"]

\* start_message_streaming without the lookup in pending_messages.
start_message_streaming_unchecked(w, stream_id, ok) ==
    IF ~ok THEN [w EXCEPT !.ret = FALSE]
    ELSE LET message_id == TrackedMessage(stream_id) IN
         [w EXCEPT !.messages[message_id].status = STREAMING,
                   !.streaming_messages = @ \cup {stream_id},
                   !.pending_messages = @ \ {stream_id},
                   !.ret = TRUE]

\* start_message_streaming that copies the tracking entry instead of moving it.
start_message_streaming_keeps_pending(w, stream_id, ok) ==
    IF stream_id \notin w.pending_messages THEN [w EXCEPT !.ret = FALSE]
    ELSE IF ~ok THEN [w EXCEPT !.ret = FALSE]
    ELSE LET message_id == TrackedMessage(stream_id) IN
         [w EXCEPT !.messages[message_id].status = STREAMING,
                   !.streaming_messages = @ \cup {stream_id},
                   !.ret = TRUE]

\* start_message_streaming.  ok: the store's update_one does not raise.
start_message_streaming(w, stream_id, ok) ==
    IF stream_id \notin w.pending_messages THEN [w EXCEPT !.ret = FALSE]
    ELSE IF ~ok THEN [w EXCEPT !.ret = FALSE]
    ELSE LET message_id == TrackedMessage(stream_id) IN
         [w EXCEPT !.messages[message_id].status = STREAMING,
                   !.streaming_messages = @ \cup {stream_id},
                   !.pending_messages = @ \ {stream_id},
                   !.ret = TRUE]

\* update_streaming_message that puts the chunk in front of the buffer.
update_streaming_message_prepend(w, stream_id, content_chunk, ok) ==
    IF stream_id \notin w.streaming_messages THEN [w EXCEPT !.ret = FALSE]
    ELSE IF ~ok THEN [w EXCEPT !.ret = FALSE]
    ELSE LET message_id == TrackedMessage(stream_id)
             new_partial_content ==
                 content_chunk \o w.messages[message_id].partial_content
         IN  [w EXCEPT !.messages[message_id].partial_content = new_partial_content,
                       !.messages[message_id].content = new_partial_content,
                       !.ret = TRUE]

\* update_streaming_message that shows only the newest chunk as content.
update_streaming_message_shows_chunk(w, stream_id, content_chunk, ok) ==
    IF stream_id \notin w.streaming_messages THEN [w EXCEPT !.ret = FALSE]
    ELSE IF ~ok THEN [w EXCEPT !.ret = FALSE]
    ELSE LET message_id == TrackedMessage(stream_id)
             new_partial_content ==
                 w.messages[message_id].partial_content \o content_chunk
         IN  [w EXCEPT !.messages[message_id].partial_content = new_partial_content,
                       !.messages[message_id].content = content_chunk,
                       !.ret = TRUE]

\* update_streaming_message: read the document, append the chunk, write back.
update_streaming_message(w, stream_id, content_chunk, ok) ==
    IF stream_id \notin w.streaming_messages THEN [w EXCEPT !.ret = FALSE]
    ELSE IF ~ok THEN [w EXCEPT !.ret = FALSE]
    ELSE LET message_id == TrackedMessage(stream_id)
             new_partial_content ==
                 w.messages[message_id].partial_content \o content_chunk
         IN  [w EXCEPT !.messages[message_id].partial_content = new_partial_content,
                       !.messages[message_id].content = new_partial_content,
                       !.ret = TRUE]

\* complete_streaming_message that updates the chat metadata before it looks
\* the stream id up.
complete_streaming_message_recounts(w, stream_id, final_content, ok) ==
    LET message_id == TrackedMessage(stream_id)
        chat_id == w.messages[message_id].chat_session_id
        w0 == update_chat_metadata_with_ai_response(w, chat_id)
    IN  IF stream_id \notin w.streaming_messages THEN [w0 EXCEPT !.ret = FALSE]
        ELSE LET w1 == [w EXCEPT !.streaming_messages = @ \ {stream_id}]
             IN  IF ~ok THEN [w1 EXCEPT !.ret = FALSE]
                 ELSE [update_chat_metadata_with_ai_response(w1, chat_id)
                       EXCEPT !.messages[message_id].status = COMPLETE,
                              !.messages[message_id].content = final_content,
                              !.messages[message_id].final_content = final_content,
                              !.ret = TRUE]

\* complete_streaming_message: the tracking entry is popped before the update.
complete_streaming_message(w, stream_id, final_content, ok) ==
    IF stream_id \notin w.streaming_messages THEN [w EXCEPT !.ret = FALSE]
    ELSE LET message_id == TrackedMessage(stream_id)
             chat_id == w.messages[message_id].chat_session_id
             w1 == [w EXCEPT !.streaming_messages = @ \ {stream_id}]
         IN  IF ~ok THEN [w1 EXCEPT !.ret = FALSE]
             ELSE [update_chat_metadata_with_ai_response(w1, chat_id)
                   EXCEPT !.messages[message_id].status = COMPLETE,
                          !.messages[message_id].content = final_content,
                          !.messages[message_id].final_content = final_content,
                          !.ret = TRUE]

ErrorText(error_message) == <<"Error: ">> \o error_message

\* fail_message without the tracking lookup: the update is issued for any
\* stream id.
fail_message_untracked(w, stream_id, error_message, ok) ==
    IF ~ok THEN [w EXCEPT !.ret = FALSE]
    ELSE LET message_id == TrackedMessage(stream_id)
         IN  [w EXCEPT !.messages[message_id].status = FAILED,
                       !.messages[message_id].content = ErrorText(error_message),
                       !.pending_messages = @ \ {stream_id},
                       !.streaming_messages = @ \ {stream_id},
                       !.ret = TRUE]

\* fail_message that writes the error text but not the status.
fail_message_keeps_status(w, stream_id, error_message, ok) ==
    IF /\ stream_id \notin w.pending_messages
       /\ stream_id \notin w.streaming_messages
    THEN [w EXCEPT !.ret = FALSE]
    ELSE IF ~ok THEN [w EXCEPT !.ret = FALSE]
    ELSE LET message_id == TrackedMessage(stream_id)
         IN  [w EXCEPT !.messages[message_id].content = ErrorText(error_message),
                       !.pending_messages = @ \ {stream_id},
                       !.streaming_messages = @ \ {stream_id},
                       !.ret = TRUE]

\* fail_message: the tracking entries are popped after the update.
fail_message(w, stream_id, error_message, ok) ==
    IF /\ stream_id \notin w.pending_messages
       /\ stream_id \notin w.streaming_messages
    THEN [w EXCEPT !.ret = FALSE]
    ELSE IF ~ok THEN [w EXCEPT !.ret = FALSE]
    ELSE LET message_id == TrackedMessage(stream_id)
         IN  [w EXCEPT !.messages[message_id].status = FAILED,
                       !.messages[message_id].content = ErrorText(error_message),
                       !.pending_messages = @ \ {stream_id},
                       !.streaming_messages = @ \ {stream_id},
                       !.ret = TRUE]

\* ---------------------------------------------------- branch manager
\* The version of a regenerated message restarting from the first version.
NextVersionFromFirst(original_message) == 1 + 1

\* "version": original_message.version + 1
NextVersion(original_message) == original_message.version + 1

\* regenerate_message.  new_content = <<>> stands for None (and for "", which
\* `new_content or original.content` treats alike).  The branch id is a fresh
\* ObjectId: the new message's id stands for it.
regenerate_message(w, message_id, user, new_content) ==
    IF message_id \notin DOMAIN w.messages THEN [w EXCEPT !.err = "NotFound"]
    ELSE LET original_message == w.messages[message_id] IN
    IF ~MessageValid(original_message) THEN [w EXCEPT !.err = "ValidationError"]
    ELSE IF ~get_chat_session(w, original_message.chat_session_id, user)
    THEN [w EXCEPT !.err = "NotFound"]
    ELSE
    LET id == Len(w.messages) + 1
        text == IF new_content # <<>> THEN new_content ELSE original_message.content
        regenerated ==
            [chat_session_id |-> original_message.chat_session_id,
             user_id |-> user,
             role |-> original_message.role,
             content |-> text,
             status |-> IF original_message.role = ASSISTANT THEN PENDING ELSE COMPLETE,
             partial_content |-> <<>>,
             final_content |-> text,
             version |-> NextVersion(original_message),
             parent_message_id |-> message_id,
             child_message_ids |-> <<>>,
             branch_id |-> id,
             is_active_branch |-> TRUE,
             stream_id |-> IF original_message.role = ASSISTANT THEN id ELSE 0]
    IN  [w EXCEPT !.messages = Append([@ EXCEPT ![message_id].child_message_ids =
                                                    Append(@, id)],
                                      regenerated),
                  !.ret = id]

\* The documents of a chat, by id in insertion order.
ChatMessages(w, chat_id) ==
    {i \in DOMAIN w.messages : w.messages[i].chat_session_id = chat_id}

\* create_conversation_branch: deactivates the active-branch messages created
\* after the parent; inserts nothing; returns a fresh branch id.
create_conversation_branch(w, parent_message_id, user) ==
    IF parent_message_id \notin DOMAIN w.messages THEN [w EXCEPT !.err = "NotFound"]
    ELSE LET parent_message == w.messages[parent_message_id] IN
    IF ~MessageValid(parent_message) THEN [w EXCEPT !.err = "ValidationError"]
    ELSE IF ~get_chat_session(w, parent_message.chat_session_id, user)
    THEN [w EXCEPT !.err = "NotFound"]
    ELSE [w EXCEPT
            !.messages = [i \in DOMAIN w.messages |->
                IF /\ w.messages[i].chat_session_id = parent_message.chat_session_id
                   /\ i > parent_message_id
                   /\ w.messages[i].branch_id # 0
                   /\ w.messages[i].is_active_branch
                THEN [w.messages[i] EXCEPT !.is_active_branch = FALSE]
                ELSE w.messages[i]],
            !.ret = "branch_id"]

\* The first update_many of switch_conversation_branch: $set of
\* "conversation_branch.is_active_branch" on every message of the chat.  The
\* store rejects a $set through a null parent ("Cannot create field
\* 'is_active_branch' in element {conversation_branch: null}"), and a
\* multi-document update stops at the first document it rejects: the documents
\* before the first trunk message (in insertion order) are deactivated and the
\* call raises.
deactivate_all_branches(w, chat_id) ==
    LET trunk == {i \in ChatMessages(w, chat_id) : w.messages[i].branch_id = 0}
        stop == IF trunk = {} THEN Len(w.messages) + 1
                ELSE CHOOSE i \in trunk : \A j \in trunk : i <= j
    IN  [w EXCEPT
            !.messages = [i \in DOMAIN w.messages |->
                IF i \in ChatMessages(w, chat_id) /\ i < stop
                THEN [w.messages[i] EXCEPT !.is_active_branch = FALSE]
                ELSE w.messages[i]],
            !.err = IF trunk = {} THEN "" ELSE "WriteError"]

\* The second update_many of switch_conversation_branch; ret: modified_count > 0.
activate_branch(w, chat_id, branch_id) ==
    LET sel == {i \in ChatMessages(w, chat_id) : w.messages[i].branch_id = branch_id}
    IN  [w EXCEPT
            !.messages = [i \in DOMAIN w.messages |->
                IF i \in sel THEN [w.messages[i] EXCEPT !.is_active_branch = TRUE]
                ELSE w.messages[i]],
            !.ret = (sel # {})]

\* get_active_messages: trunk messages and active-branch messages of the chat,
\* sorted by timestamp (creation order), each built into a Message.
RECURSIVE SortedIds(_)
SortedIds(S) ==
    IF S = {} THEN <<>>
    ELSE LET m == CHOOSE i \in S : \A j \in S : i <= j
         IN  <<m>> \o SortedIds(S \ {m})

get_active_messages(w, chat_id, user) ==
    IF ~get_chat_session(w, chat_id, user) THEN [w EXCEPT !.err = "NotFound"]
    ELSE LET sel == {i \in ChatMessages(w, chat_id) :
                        \/ w.messages[i].branch_id = 0
                        \/ w.messages[i].is_active_branch}
         IN  IF \E i \in sel : ~MessageValid(w.messages[i])
             THEN [w EXCEPT !.err = "ValidationError"]
             ELSE [w EXCEPT !.ret = SortedIds(sel)]

\* ===================================================================
\* Connection registry (ConnectionManager)
\* ===================================================================
\* The registry as one value.  active_connections maps a user to the set of
\* its connection ids (a user without entry has the empty set); chat_rooms
\* maps chat and user to the member's connection id, 0 when the user has no
\* entry; connection_users maps a connection id to its user, "none" when absent.
Registry == [active_connections |-> active_connections, chat_rooms |-> chat_rooms,
             connection_users |-> connection_users]

UserOrder == <<"alice", "bob">>

Event(c, type) == [to |-> c, type |-> type]

connect(r, user, connection_id) ==
    [r EXCEPT !.active_connections[user] = @ \cup {connection_id},
              !.connection_users[connection_id] = user]

\* disconnect without the removal from the chat rooms.
disconnect_keeps_rooms(r, connection_id) ==
    LET user_id == r.connection_users[connection_id]
    IN  IF user_id = "none" \/ r.active_connections[user_id] = {} THEN r
        ELSE [r EXCEPT !.active_connections[user_id] = @ \ {connection_id},
                       !.connection_users[connection_id] = "none"]

disconnect(r, connection_id) ==
    LET user_id == r.connection_users[connection_id]
    IN  IF user_id = "none" \/ r.active_connections[user_id] = {} THEN r
        ELSE [r EXCEPT !.active_connections[user_id] = @ \ {connection_id},
                       !.chat_rooms = [ch \in DOMAIN @ |-> [u \in DOMAIN @[ch] |->
                           IF u = user_id /\ @[ch][u] = connection_id
                           THEN 0 ELSE @[ch][u]]],
                       !.connection_users[connection_id] = "none"]

_get_user_connection(r, user_id, connection_id) ==
    connection_id \in r.active_connections[user_id]

join_chat_room(r, chat_id, user_id, connection_id) ==
    [r EXCEPT !.chat_rooms[chat_id][user_id] = connection_id]

leave_chat_room(r, chat_id, user_id) ==
    [r EXCEPT !.chat_rooms[chat_id][user_id] = 0]

\* send_to_connection that lets the error of a dead transport out.
send_to_connection_raises(connection_id) ==
    IF sock[connection_id] = "closed" THEN "raised" ELSE "sent"

\* send_to_connection: send_text inside try/except Exception; whatever a dead
\* transport does to the send (raise, or accept the text), nothing is raised.
send_to_connection(connection_id) ==
    IF sock[connection_id] = "closed" THEN "swallowed" ELSE "sent"

\* broadcast_to_chat: the sends attempted, one per member that is not
\* excluded and whose connection is found; exclude_user "none" excludes nobody.
\* An exception out of a send would end the loop.
RECURSIVE broadcast_from(_, _, _, _, _)
broadcast_from(r, chat_id, type, exclude_user, k) ==
    IF k > Len(UserOrder) THEN <<>>
    ELSE LET user_id == UserOrder[k]
             connection_id == r.chat_rooms[chat_id][user_id]
             rest == broadcast_from(r, chat_id, type, exclude_user, k + 1)
         IN  IF connection_id = 0 THEN rest
             ELSE IF exclude_user # "none" /\ user_id = exclude_user THEN rest
             ELSE IF _get_user_connection(r, user_id, connection_id)
             THEN IF send_to_connection(connection_id) = "raised"
                  THEN <<Event(connection_id, type)>>
                  ELSE <<Event(connection_id, type)>> \o rest
             ELSE rest

broadcast_to_chat(r, chat_id, type, exclude_user) ==
    broadcast_from(r, chat_id, type, exclude_user, 1)

\* What broadcast_to_chat raises to its caller, given the sends it attempted.
broadcast_err(out) ==
    IF \E k \in DOMAIN out : send_to_connection(out[k].to) = "raised"
    THEN "SendError" ELSE ""

\* ===================================================================
\* Actions
\* ===================================================================
NoOut == <<>>

Init ==
    /\ messages = <<>>
    /\ chat_sessions = <<>>
    /\ pending_messages = {}
    /\ streaming_messages = {}
    /\ active_generations = {}
    /\ gen = [s \in MsgIds |-> [pc |-> "idle", produced |-> <<>>]]
    /\ active_connections = [u \in Users |-> {}]
    /\ chat_rooms = [ch \in ChatIds |-> [u \in Users |-> 0]]
    /\ connection_users = [c \in ConnIds |-> "none"]
    /\ sock = [c \in ConnIds |-> "new"]
    /\ switching = [pc |-> "idle"]
    /\ broadcasting = [pc |-> "idle"]
    /\ last = [op |-> "init", arg |-> <<>>, err |-> "", ret |-> "none", out |-> NoOut]
    /\ hist = [cancelled |-> {}, snap |-> [s \in MsgIds |-> <<>>], switched |-> <<>>,
               applied |-> [s \in MsgIds |-> <<>>],
               bcast |-> [s \in MsgIds |-> <<>>],
               arrived |-> {}, mark |-> [s \in MsgIds |-> 0],
               noticed |-> {}]

\* The state after a service call that left the world w.
Commit(w, op, arg) ==
    /\ messages' = w.messages
    /\ chat_sessions' = w.chat_sessions
    /\ pending_messages' = w.pending_messages
    /\ streaming_messages' = w.streaming_messages
    /\ last' = [op |-> op, arg |-> arg, err |-> w.err, ret |-> w.ret, out |-> NoOut]

\* The same after a call that was followed by the sends out.
CommitOut(w, op, arg, out) ==
    /\ messages' = w.messages
    /\ chat_sessions' = w.chat_sessions
    /\ pending_messages' = w.pending_messages
    /\ streaming_messages' = w.streaming_messages
    /\ last' = [op |-> op, arg |-> arg, err |-> w.err, ret |-> w.ret, out |-> out]

StreamIds == {messages[i].stream_id : i \in DOMAIN messages} \ {0}

UserText == <<"q">>
\* contents a client sends: empty, blank, text, text in whitespace
SentTexts == {<<>>, <<" ">>, UserText, <<" ">> \o UserText \o <<" ">>}
Chunk(t) == <<t>>
Reason == <<"reason">>

\* ---- the service called directly (REST handlers, tests, any caller)
CreateChat(u) ==
    /\ Len(chat_sessions) < Cardinality(ChatIds)
    /\ Commit(create_chat_session(World, u), "create_chat_session", <<u>>)
    /\ UNCHANGED <<genVars, regVars, brVars, hist>>

CreatePending(ch, u, role) ==
    /\ Commit(create_pending_message(World, ch, u, role,
                                     IF role = USER THEN UserText ELSE <<>>),
              "create_pending_message", <<ch, u, role>>)
    /\ UNCHANGED <<genVars, regVars, brVars, hist>>

StartStreaming(sid, ok) ==
    /\ Commit(start_message_streaming(World, sid, ok),
              "start_message_streaming", <<sid>>)
    /\ UNCHANGED <<genVars, regVars, brVars, hist>>

\* hist.applied[sid]: the chunks of the calls that returned True, in call order.
UpdateStreaming(sid, t, ok) ==
    /\ LET w == update_streaming_message(World, sid, Chunk(t), ok)
       IN  /\ Commit(w, "update_streaming_message", <<sid>>)
           /\ hist' = IF w.ret = TRUE
                      THEN [hist EXCEPT !.applied[sid] = @ \o Chunk(t)]
                      ELSE hist
    /\ UNCHANGED <<genVars, regVars, brVars>>

CompleteStreaming(sid, ok) ==
    /\ Commit(complete_streaming_message(World, sid, <<"final">>, ok),
              "complete_streaming_message", <<sid>>)
    /\ UNCHANGED <<genVars, regVars, brVars, hist>>

FailMessage(sid, ok) ==
    /\ Commit(fail_message(World, sid, Reason, ok), "fail_message", <<sid>>)
    /\ UNCHANGED <<genVars, regVars, brVars, hist>>

NextService ==
    \/ \E u \in Users : CreateChat(u)
    \/ \E ch \in ChatIds, u \in Users, role \in {USER, ASSISTANT} :
          Len(messages) < MaxMessages /\ CreatePending(ch, u, role)
    \/ \E sid \in StreamIds, ok \in BOOLEAN : StartStreaming(sid, ok)
    \/ \E sid \in StreamIds, t \in ChunkTexts, ok \in BOOLEAN :
          Len(messages[sid].partial_content) < MaxChunks /\ UpdateStreaming(sid, t, ok)
    \/ \E sid \in StreamIds, ok \in BOOLEAN : CompleteStreaming(sid, ok)
    \/ \E sid \in StreamIds, ok \in BOOLEAN : FailMessage(sid, ok)

Spec == Init /\ [][NextService]_vars

StatusEdges ==
    {<<PENDING, STREAMING>>, <<STREAMING, COMPLETE>>, <<STREAMING, FAILED>>,
     <<STREAMING, CANCELLED>>, <<PENDING, FAILED>>, <<PENDING, CANCELLED>>}

LifecycleOps == {"start_message_streaming", "update_streaming_message",
                 "complete_streaming_message", "fail_message"}

\* C1: in every step the stored status of every message either stays the same
\* or moves along PENDING->STREAMING, STREAMING->{COMPLETE, FAILED, CANCELLED}
\* or PENDING->{FAILED, CANCELLED}; in particular no call of
\* start_message_streaming, update_streaming_message,
\* complete_streaming_message or fail_message changes a status that is
\* already COMPLETE, FAILED or CANCELLED.
C1_StatusEdges ==
    [][\A i \in DOMAIN messages :
          messages'[i].status # messages[i].status
              => <<messages[i].status, messages'[i].status>> \in StatusEdges]_vars

\* A lifecycle call was just made for the stream id of a message that is
\* terminal, and it returned False.
C1_Witness ==
    /\ last.op \in LifecycleOps
    /\ last.ret = FALSE
    /\ \E i \in DOMAIN messages :
          /\ last.arg = <<messages[i].stream_id>>
          /\ messages[i].role = ASSISTANT
          /\ messages[i].status \in Terminal

\* ---- regenerate_message called directly or by a handler
Regenerate(mid, u, new_content) ==
    /\ Commit(regenerate_message(World, mid, u, new_content),
              "regenerate_message", <<mid, new_content, u>>)
    /\ hist' = [hist EXCEPT !.switched = <<>>]
    /\ UNCHANGED <<genVars, regVars, brVars>>

\* ---- generate_ai_response_with_streaming, one action per suspension point
SetPc(sid, pc) == [gen EXCEPT ![sid].pc = pc]

Join(chunks) == chunks

\* Called without stream_id: MessageCreate(content="") is built first, then
\* create_pending_message.  An exception reaches the handler's except branch
\* with stream_id still None, which does nothing.
GenInvokeNew(ch, u) ==
    /\ LET w == IF MessageCreateValid(<<>>)
                THEN create_pending_message(World, ch, u, ASSISTANT, <<>>)
                ELSE [World EXCEPT !.err = "ValidationError"]
       IN  /\ Commit(w, "generate_ai_response_with_streaming", <<0>>)
           /\ IF w.err = ""
              THEN /\ active_generations' = active_generations \cup {w.ret}
                   /\ gen' = SetPc(w.ret, "begin")
              ELSE UNCHANGED genVars
    /\ UNCHANGED <<regVars, brVars, hist>>

\* Called with a stream_id: the message is looked up in the tracking dicts;
\* when it is in neither the call logs an error and returns.
GenInvoke(sid) ==
    /\ gen[sid].pc = "idle"
    /\ IF sid \in pending_messages \cup streaming_messages
       THEN /\ active_generations' = active_generations \cup {sid}
            /\ gen' = SetPc(sid, "begin")
       ELSE /\ gen' = SetPc(sid, "done")
            /\ UNCHANGED active_generations
    /\ last' = [op |-> "generate_ai_response_with_streaming", arg |-> <<sid>>,
                err |-> "", ret |-> "none", out |-> NoOut]
    /\ UNCHANGED <<storeVars, svcVars, regVars, brVars, hist>>

\* The orchestrator's broadcast of an event of stream sid to the room of its
\* chat, excluding nobody.
RoomOut(sid, type) ==
    broadcast_to_chat(Registry, messages[sid].chat_session_id, type, "none")

\* The ai_stream_start broadcast and start_message_streaming, then the engine
\* is asked; streaming: whether the engine has generate_streaming_response.
GenBegin(sid, ok, streaming) ==
    /\ gen[sid].pc = "begin"
    /\ CommitOut(start_message_streaming(World, sid, ok), "gen_begin", <<sid>>,
                 RoomOut(sid, "ai_stream_start"))
    /\ gen' = SetPc(sid, IF streaming THEN "stream" ELSE "fallback")
    /\ UNCHANGED <<active_generations, regVars, brVars, hist>>

\* The except branch of the orchestrator.
GenExcept(sid, ok) ==
    /\ CommitOut(fail_message(World, sid, <<"Generation error">>, ok),
                 "gen_except", <<sid>>, RoomOut(sid, "ai_stream_error"))
    /\ active_generations' = active_generations \ {sid}
    /\ gen' = SetPc(sid, "done")

\* One iteration of the async-for loop: the engine yields ev (or raises).
GenEvent(sid, ev, t, ok) ==
    /\ gen[sid].pc = "stream"
    /\ IF ev = "raise" THEN GenExcept(sid, ok)
       ELSE IF sid \notin active_generations
       THEN /\ Commit(fail_message(World, sid, <<"Generation cancelled">>, ok),
                      "gen_cancelled", <<sid>>)
            /\ gen' = SetPc(sid, "done")
            /\ UNCHANGED active_generations
       ELSE IF ev = "chunk"
       THEN /\ CommitOut(update_streaming_message(World, sid, Chunk(t), ok),
                         "gen_chunk", <<sid>>, RoomOut(sid, "ai_stream_chunk"))
            /\ gen' = [gen EXCEPT ![sid].produced = @ \o Chunk(t)]
            /\ UNCHANGED active_generations
       ELSE IF ev = "complete"
       THEN /\ CommitOut(complete_streaming_message(World, sid,
                                                    Join(gen[sid].produced), ok),
                         "gen_complete", <<sid>>,
                         RoomOut(sid, "ai_stream_complete"))
            /\ active_generations' = active_generations \ {sid}
            /\ gen' = SetPc(sid, "done")
       ELSE /\ CommitOut(fail_message(World, sid, Reason, ok), "gen_error", <<sid>>,
                         RoomOut(sid, "ai_stream_error"))
            /\ active_generations' = active_generations \ {sid}
            /\ gen' = SetPc(sid, "done")
    /\ hist' = IF ev = "chunk" /\ sid \in active_generations
               THEN [hist EXCEPT
                        !.bcast[sid] = @ \o Chunk(t),
                        !.applied[sid] =
                            IF update_streaming_message(World, sid, Chunk(t), ok).ret = TRUE
                            THEN @ \o Chunk(t) ELSE @]
               ELSE hist
    /\ UNCHANGED <<regVars, brVars>>

\* The non-streaming fallback: generate_response returns success or failure,
\* or raises.
GenFallback(sid, res, ok) ==
    /\ gen[sid].pc = "fallback"
    /\ IF res = "raise" THEN GenExcept(sid, ok)
       ELSE IF res = "success"
       THEN /\ CommitOut(complete_streaming_message(World, sid, <<"answer">>, ok),
                         "gen_complete", <<sid>>,
                         RoomOut(sid, "ai_stream_complete"))
            /\ active_generations' = active_generations \ {sid}
            /\ gen' = SetPc(sid, "done")
       ELSE /\ CommitOut(fail_message(World, sid, Reason, ok), "gen_error", <<sid>>,
                         RoomOut(sid, "ai_stream_error"))
            /\ active_generations' = active_generations \ {sid}
            /\ gen' = SetPc(sid, "done")
    /\ UNCHANGED <<regVars, brVars, hist>>

\* handle_cancel_generation: fail_message is called on a fresh
\* EnhancedChatService, whose tracking dicts are empty.
handle_cancel_generation(w, stream_id, ok) ==
    fail_message(FreshService(w), stream_id, <<"Generation cancelled by user">>, ok)

HandleCancel(sid, ok) ==
    /\ IF sid \in active_generations
       THEN LET w == handle_cancel_generation(World, sid, ok)
            IN  /\ active_generations' = active_generations \ {sid}
                /\ messages' = w.messages
                /\ chat_sessions' = w.chat_sessions
                /\ hist' = [hist EXCEPT !.cancelled = @ \cup {sid},
                                        !.snap[sid] = messages[sid].content]
                /\ last' = [op |-> "handle_cancel_generation", arg |-> <<sid>>,
                            err |-> "", ret |-> "generation_cancelled",
                            out |-> NoOut]
       ELSE /\ last' = [op |-> "handle_cancel_generation", arg |-> <<sid>>,
                        err |-> "", ret |-> "error", out |-> NoOut]
            /\ UNCHANGED <<storeVars, active_generations, hist>>
    /\ UNCHANGED <<svcVars, gen, regVars, brVars>>

NextOrch ==
    \/ \E u \in Users : CreateChat(u)
    \/ \E ch \in ChatIds, u \in Users :
          Len(messages) < MaxMessages /\ CreatePending(ch, u, ASSISTANT)
    \/ \E mid \in DOMAIN messages, u \in Users :
          Len(messages) < MaxMessages /\ Regenerate(mid, u, <<>>)
    \/ \E ch \in ChatIds, u \in Users :
          Len(messages) < MaxMessages /\ GenInvokeNew(ch, u)
    \/ \E sid \in StreamIds : GenInvoke(sid)
    \/ \E sid \in StreamIds, ok, streaming \in BOOLEAN : GenBegin(sid, ok, streaming)
    \/ \E sid \in StreamIds, ev \in {"chunk", "complete", "error", "raise"},
          t \in ChunkTexts, ok \in BOOLEAN :
          /\ ev = "chunk" => Len(gen[sid].produced) < MaxChunks
          /\ GenEvent(sid, ev, t, ok)
    \/ \E sid \in StreamIds, res \in {"success", "failure", "raise"},
          ok \in BOOLEAN : GenFallback(sid, res, ok)
    \/ \E sid \in StreamIds, ok \in BOOLEAN : HandleCancel(sid, ok)

SpecOrch == Init /\ [][NextOrch]_vars

\* C2: every assistant message for which the orchestrator was invoked and has
\* returned is in status COMPLETE, FAILED or CANCELLED, whether it was created
\* by create_pending_message or by regenerate_message and whether or not the
\* engine or a store update failed on the way.
C2_OrchestratorEndsTerminal ==
    \A sid \in StreamIds :
        (gen[sid].pc = "done" /\ messages[sid].role = ASSISTANT)
            => messages[sid].status \in Terminal

\* C3: once handle_cancel_generation has cancelled a stream, no later
\* update_streaming_message or complete_streaming_message call made for that
\* stream id changes the content of its message.
C3_ContentStableAfterCancel ==
    [][\A sid \in hist.cancelled :
          (last'.op \in {"gen_chunk", "gen_complete"} /\ last'.arg = <<sid>>)
              => messages'[sid].content = messages[sid].content]_vars

\* C4: a stream cancelled after k >= 1 chunks were applied ends, when its
\* orchestrator has returned, in status CANCELLED with the k chunks followed
\* by one cancellation notice as content.
C4_CancelledKeepsAppliedChunks ==
    \A sid \in hist.cancelled :
        (gen[sid].pc = "done" /\ hist.snap[sid] # <<>>)
            => /\ messages[sid].status = CANCELLED
               /\ Len(messages[sid].content) = Len(hist.snap[sid]) + 1
               /\ SubSeq(messages[sid].content, 1, Len(hist.snap[sid]))
                      = hist.snap[sid]

\* ===================================================================
\* Branch manager
\* ===================================================================
\* create_conversation_branch (fork)
Fork(mid, u) ==
    /\ Commit(create_conversation_branch(World, mid, u),
              "create_conversation_branch", <<mid>>)
    /\ hist' = [hist EXCEPT !.switched = <<>>]
    /\ UNCHANGED <<genVars, regVars, brVars>>

\* switch_conversation_branch up to its first await that can suspend with
\* the store changed: ownership check and the deactivating update_many.  An
\* exception ends the call.
SwitchBranch(ch, b, u) ==
    /\ switching.pc = "idle"
    /\ IF ~get_chat_session(World, ch, u)
       THEN /\ Commit([World EXCEPT !.err = "NotFound"],
                      "switch_conversation_branch", <<ch, b, u>>)
            /\ UNCHANGED <<switching, hist>>
       ELSE LET w == deactivate_all_branches(World, ch)
            IN  /\ Commit(w, "switch_conversation_branch", <<ch, b, u>>)
                /\ IF w.err = ""
                   THEN /\ switching' = [pc |-> "deactivated", chat |-> ch,
                                         branch |-> b]
                        /\ UNCHANGED hist
                   ELSE /\ UNCHANGED switching
                        /\ hist' = [hist EXCEPT !.switched = <<ch, b>>]
    /\ UNCHANGED <<genVars, regVars, broadcasting>>

\* The rest of switch_conversation_branch: the activating update_many and the
\* return value.
SwitchBranchActivate ==
    /\ switching.pc = "deactivated"
    /\ Commit(activate_branch(World, switching.chat, switching.branch),
              "switch_conversation_branch",
              <<switching.chat, switching.branch,
                chat_sessions[switching.chat].user_id>>)
    /\ switching' = [pc |-> "idle"]
    /\ hist' = [hist EXCEPT !.switched = <<switching.chat, switching.branch>>]
    /\ UNCHANGED <<genVars, regVars, broadcasting>>

GetActiveMessages(ch, u) ==
    /\ Commit(get_active_messages(World, ch, u), "get_active_messages", <<ch, u>>)
    /\ UNCHANGED <<genVars, regVars, brVars, hist>>

NextBranch ==
    \/ \E u \in Users : CreateChat(u)
    \/ \E ch \in ChatIds, u \in Users, role \in {USER, ASSISTANT} :
          Len(messages) < MaxBranchMessages /\ CreatePending(ch, u, role)
    \/ \E sid \in StreamIds : FailMessage(sid, TRUE)
    \/ \E mid \in DOMAIN messages, u \in Users, nc \in {<<>>, <<"e">>} :
          Len(messages) < MaxBranchMessages /\ Regenerate(mid, u, nc)
    \/ \E mid \in DOMAIN messages, u \in Users : Fork(mid, u)
    \/ \E ch \in ChatIds, b \in 1..MaxBranchMessages, u \in Users :
          SwitchBranch(ch, b, u)
    \/ SwitchBranchActivate
    \/ \E ch \in ChatIds, u \in Users : GetActiveMessages(ch, u)

SpecBranch == Init /\ [][NextBranch]_vars

ActiveBranchIds(ch) ==
    {messages[i].branch_id : i \in {j \in ChatMessages(World, ch) :
                                        messages[j].is_active_branch}}

\* C5: a successful regenerate_message(M) leaves a new message whose version
\* is M's version plus one and whose parent_message_id is M, and M's
\* child_message_ids contains the new message; M may itself be the result of
\* a regeneration.
C5_RegenerateLinks ==
    (last.op = "regenerate_message" /\ last.err = "")
        => LET M == last.arg[1]
               new == last.ret
           IN  /\ new \in DOMAIN messages
               /\ new # M
               /\ messages[new].version = messages[M].version + 1
               /\ messages[new].parent_message_id = M
               /\ \E k \in DOMAIN messages[M].child_message_ids :
                      messages[M].child_message_ids[k] = new

\* A message that is itself a regeneration has just been regenerated.
C5_Witness ==
    /\ last.op = "regenerate_message"
    /\ last.err = ""
    /\ messages[last.arg[1]].parent_message_id # 0
    /\ messages[last.ret].version = 3

\* C6: in every reachable state, intermediate states of
\* switch_conversation_branch included, the messages of a chat whose
\* is_active_branch flag is true carry at most one branch id.
C6_OneActiveBranch ==
    \A ch \in DOMAIN chat_sessions : Cardinality(ActiveBranchIds(ch)) <= 1

\* C7: when switch_conversation_branch(chat, B) was the last branch operation
\* on a chat that has messages of branch B (called once or repeatedly), a
\* get_active_messages(chat) by the owner returns the trunk messages and the
\* messages of branch B, and only those, in creation order.
C7_SwitchThenActiveMessages ==
    LET ch == hist.switched[1]
        B == hist.switched[2]
    IN  (/\ hist.switched # <<>>
         /\ last.op = "get_active_messages"
         /\ last.arg[1] = ch
         /\ last.err # "NotFound"
         /\ \E i \in ChatMessages(World, ch) : messages[i].branch_id = B)
            => /\ last.err = ""
               /\ last.ret = SortedIds({i \in ChatMessages(World, ch) :
                                           messages[i].branch_id \in {0, B}})
\* ===================================================================
\* The callers of the connection registry
\* ===================================================================
CommitRegistry(r) ==
    /\ active_connections' = r.active_connections
    /\ chat_rooms' = r.chat_rooms
    /\ connection_users' = r.connection_users

Called(op, arg, ret, out) ==
    last' = [op |-> op, arg |-> arg, err |-> "", ret |-> ret, out |-> out]

RoomsOf(connection_id) ==
    {ch \in ChatIds : \E u \in Users : chat_rooms[ch][u] = connection_id}

otherVars == <<storeVars, svcVars, genVars, brVars, hist>>

\* The endpoint up to its message loop: authenticate, connect, join the chat
\* given in the query (ch = 0: none given).
Connect(c, ch) ==
    /\ sock[c] = "new"
    /\ LET r1 == connect(Registry, ConnUser(c), c)
           r2 == IF ch = 0 THEN r1 ELSE join_chat_room(r1, ch, ConnUser(c), c)
       IN  /\ CommitRegistry(r2)
           /\ Called("connect", <<c>>, "none",
                     <<Event(c, "connection_established")>> \o
                     (IF ch = 0 THEN <<>> ELSE <<Event(c, "joined_chat")>>))
    /\ sock' = [sock EXCEPT ![c] = "open"]
    /\ UNCHANGED otherVars

\* The client's transport goes away.  receive_text raises WebSocketDisconnect
\* inside the loop's try, where `except Exception` catches it: the loop goes
\* on and the handler after the loop is not reached.
ClientDisconnect(c) ==
    /\ sock[c] = "open"
    /\ sock' = [sock EXCEPT ![c] = "closed"]
    /\ Called("client_disconnect", <<c>>, "none", NoOut)
    /\ UNCHANGED <<active_connections, chat_rooms, connection_users, otherVars>>

\* REST force_disconnect by user u: unregisters, the endpoint keeps running.
ForceDisconnect(c, u) ==
    /\ IF c \in active_connections[u]
       THEN /\ CommitRegistry(disconnect(Registry, c))
            /\ Called("disconnect", <<c>>, RoomsOf(c), NoOut)
       ELSE /\ last' = [op |-> "force_disconnect", arg |-> <<c>>,
                        err |-> "NotFound", ret |-> "none", out |-> NoOut]
            /\ UNCHANGED <<active_connections, chat_rooms, connection_users>>
    /\ UNCHANGED <<sock, otherVars>>

\* REST notify_user: send_to_user sends on every connection of the user and
\* disconnects those whose send raised (raises: whether a send on a closed
\* transport raises).
RECURSIVE DisconnectAll(_, _)
DisconnectAll(r, S) ==
    IF S = {} THEN r
    ELSE LET c == CHOOSE x \in S : TRUE
         IN  DisconnectAll(disconnect(r, c), S \ {c})

send_to_user(r, user_id, dead) == DisconnectAll(r, r.active_connections[user_id] \cap dead)

NotifyUser(u, raises) ==
    LET dead == IF raises THEN {c \in ConnIds : sock[c] = "closed"} ELSE {}
    IN  /\ CommitRegistry(send_to_user(Registry, u, dead))
        /\ Called("send_to_user", <<u>>, active_connections[u] \cap dead,
                  LET live == SortedIds(active_connections[u] \ dead)
                  IN  [k \in DOMAIN live |-> Event(live[k], "notification")])
        /\ UNCHANGED <<sock, otherVars>>

\* join_chat command on connection c
JoinChat(c, ch) ==
    /\ sock[c] = "open"
    /\ CommitRegistry(join_chat_room(Registry, ch, ConnUser(c), c))
    /\ Called("join_chat_room", <<c, ch>>, "none",
              IF _get_user_connection(Registry, ConnUser(c), c)
              THEN <<Event(c, "joined_chat")>> ELSE <<>>)
    /\ UNCHANGED <<sock, otherVars>>

\* leave_chat command on connection c
LeaveChat(c, ch) ==
    /\ sock[c] = "open"
    /\ CommitRegistry(leave_chat_room(Registry, ch, ConnUser(c)))
    /\ Called("leave_chat_room", <<c, ch>>, "none", NoOut)
    /\ UNCHANGED <<sock, otherVars>>

\* typing command on connection c: handle_typing_indicator broadcasts to the
\* room, excluding the sender's user.
Typing(c, ch) ==
    /\ sock[c] = "open"
    /\ LET out == broadcast_to_chat(Registry, ch, "typing_indicator", ConnUser(c))
       IN  last' = [op |-> "broadcast_to_chat", arg |-> <<ch, ConnUser(c)>>,
                    err |-> broadcast_err(out), ret |-> "none", out |-> out]
    /\ UNCHANGED <<regVars, otherVars>>

\* REST broadcast by user u: get_chat_session, then a broadcast to the room
\* that excludes nobody; any exception becomes an HTTP 500.
RestBroadcast(u, ch) ==
    /\ IF get_chat_session(World, ch, u)
       THEN LET out == broadcast_to_chat(Registry, ch, "broadcast", "none")
            IN  last' = [op |-> "broadcast_to_chat", arg |-> <<ch, "none">>,
                         err |-> broadcast_err(out), ret |-> "none", out |-> out]
       ELSE last' = [op |-> "rest_broadcast", arg |-> <<ch, u>>,
                     err |-> "HTTP500", ret |-> "none", out |-> NoOut]
    /\ UNCHANGED <<regVars, otherVars>>

NextRegistry ==
    \/ \E c \in ConnIds, ch \in ChatIds \cup {0} : Connect(c, ch)
    \/ \E c \in ConnIds : ClientDisconnect(c)
    \/ \E c \in ConnIds, u \in Users : ForceDisconnect(c, u)
    \/ \E u \in Users, raises \in BOOLEAN : NotifyUser(u, raises)
    \/ \E c \in ConnIds, ch \in ChatIds : JoinChat(c, ch)
    \/ \E c \in ConnIds, ch \in ChatIds : LeaveChat(c, ch)
    \/ \E c \in ConnIds, ch \in ChatIds : Typing(c, ch)
    \/ \E u \in Users : CreateChat(u)
    \/ \E u \in Users, ch \in ChatIds : RestBroadcast(u, ch)

SpecRegistry == Init /\ [][NextRegistry]_vars

\* C8: a broadcast to a chat room that excludes user A makes a send to a
\* connection of every other user that has an entry in the room, and no send
\* to a connection of A.
C8_BroadcastExcludes ==
    last.op = "broadcast_to_chat"
        => LET ch == last.arg[1]
               A == last.arg[2]
           IN  /\ \A u \in Users \ {A} :
                      chat_rooms[ch][u] # 0
                          => \E k \in DOMAIN last.out : ConnUser(last.out[k].to) = u
               /\ \A k \in DOMAIN last.out : ConnUser(last.out[k].to) # A

HandleSendMessage(c, ch, content, available) ==
    /\ sock[c] = "open"
    /\ LET user == ConnUser(c)
           w1 == create_pending_message(World, ch, user, USER, strip(content))
           w2 == IF available /\ MessageCreateValid(<<>>)
                 THEN create_pending_message(w1, ch, user, ASSISTANT, <<>>)
                 ELSE w1
           started == available /\ MessageCreateValid(<<>>) /\ w2.err = ""
       IN  IF content = <<>> \/ strip(content) = <<>>
           THEN /\ last' = [op |-> "handle_send_message", arg |-> <<c, ch, content>>,
                            err |-> "", ret |-> "none",
                            out |-> <<Event(c, "error")>>]
                /\ UNCHANGED <<storeVars, svcVars, genVars>>
           ELSE IF w1.err # ""
           THEN /\ messages' = w1.messages
                /\ chat_sessions' = w1.chat_sessions
                /\ pending_messages' = w1.pending_messages
                /\ streaming_messages' = w1.streaming_messages
                /\ last' = [op |-> "handle_send_message", arg |-> <<c, ch, content>>,
                            err |-> w1.err, ret |-> "none",
                            out |-> <<Event(c, "error")>>]
                /\ UNCHANGED genVars
           ELSE /\ messages' = w2.messages
                /\ chat_sessions' = w2.chat_sessions
                /\ pending_messages' = w2.pending_messages
                /\ streaming_messages' = w2.streaming_messages
                /\ last' = [op |-> "handle_send_message", arg |-> <<c, ch, content>>,
                            err |-> "", ret |-> w1.ret,
                            out |-> <<Event(c, "message_sent")>>
                                    \o broadcast_to_chat(Registry, ch, "new_message", user)
                                    \o (IF available THEN <<>>
                                        ELSE <<Event(c, "ai_unavailable")>>)]
                /\ IF started
                   THEN /\ active_generations' = active_generations \cup {w2.ret}
                        /\ gen' = SetPc(w2.ret, "begin")
                   ELSE UNCHANGED genVars
    /\ UNCHANGED <<regVars, brVars, hist>>

NextEndpoint ==
    \/ \E u \in Users : CreateChat(u)
    \/ \E c \in ConnIds, ch \in ChatIds \cup {0} : Connect(c, ch)
    \/ \E c \in ConnIds : ClientDisconnect(c)
    \/ \E c \in ConnIds, u \in Users : ForceDisconnect(c, u)
    \/ \E c \in ConnIds, ch \in ChatIds : JoinChat(c, ch)
    \/ \E c \in ConnIds, ch \in ChatIds : LeaveChat(c, ch)
    \/ \E c \in ConnIds, ch \in ChatIds, content \in SentTexts,
          available \in BOOLEAN :
          Len(messages) < MaxMessages /\ HandleSendMessage(c, ch, content, available)

SpecEndpoint == Init /\ [][NextEndpoint]_vars

EventsTo(c, type) == {k \in DOMAIN last.out : last.out[k] = Event(c, type)}

\* C10: when the owner A of chat C and another user B both have an entry in
\* room C and A sends a non-empty message to C on connection c, B's joined
\* connection is sent exactly one new_message event, c is sent a message_sent
\* event, and no connection of A is sent a new_message event.
C10_SendMessageFanOut ==
    \A B \in Users :
        LET c == last.arg[1]
            C == last.arg[2]
            A == ConnUser(c)
        IN  (/\ last.op = "handle_send_message"
             /\ last.arg[3] # <<>>
             /\ B # A
             /\ get_chat_session(World, C, A)
             /\ chat_rooms[C][A] # 0
             /\ chat_rooms[C][B] # 0)
                => /\ Cardinality(EventsTo(chat_rooms[C][B], "new_message")) = 1
                   /\ EventsTo(c, "message_sent") # {}
                   /\ \A k \in DOMAIN last.out :
                          last.out[k].type = "new_message"
                              => ConnUser(last.out[k].to) # A

\* ===================================================================
\* Failed sends
\* ===================================================================
\* C11: when broadcast_to_chat has run, nothing was raised to its caller and
\* every member of the room that is not excluded and whose connection is
\* found was sent the event, whether or not an earlier member's send failed.
C11_BroadcastSurvivesFailedSend ==
    last.op = "broadcast_to_chat"
        => LET ch == last.arg[1]
               A == last.arg[2]
           IN  /\ last.err = ""
               /\ \A u \in Users \ {A} :
                      LET c == chat_rooms[ch][u]
                      IN  (c # 0 /\ _get_user_connection(Registry, u, c))
                              => \E k \in DOMAIN last.out : last.out[k].to = c

\* A broadcast whose send to an earlier member failed on a dead transport and
\* that went on to send to a later member with a live one.
C11_Witness ==
    /\ last.op = "broadcast_to_chat"
    /\ \E i, j \in DOMAIN last.out :
           /\ i < j
           /\ sock[last.out[i].to] = "closed"
           /\ sock[last.out[j].to] = "open"

Unregistered(c) ==
    /\ connection_users[c] = "none"
    /\ \A u \in Users : c \notin active_connections[u]
    /\ RoomsOf(c) = {}

\* C12: when a send was attempted on a connection whose transport is dead, by
\* broadcast_to_chat (through send_to_connection) or by send_to_user, that
\* connection is afterwards in neither the connection table nor any room.
C12_FailedSendCleansRegistry ==
    /\ last.op = "broadcast_to_chat"
           => \A k \in DOMAIN last.out :
                  sock[last.out[k].to] = "closed" => Unregistered(last.out[k].to)
    /\ last.op = "send_to_user"
           => \A c \in last.ret : Unregistered(c)

\* ===================================================================
\* One stream, several chunks
\* ===================================================================
\* The orchestrator working on the one assistant message of a chat, its
\* cancel handler, and direct calls that end the message.
NextStream ==
    \/ \E u \in Users : CreateChat(u)
    \/ \E ch \in ChatIds, u \in Users :
          messages = <<>> /\ CreatePending(ch, u, ASSISTANT)
    \/ \E sid \in StreamIds : GenInvoke(sid)
    \/ \E sid \in StreamIds, ok \in BOOLEAN : GenBegin(sid, ok, TRUE)
    \/ \E sid \in StreamIds, ev \in {"chunk", "complete", "error", "raise"},
          t \in ChunkTexts, ok \in BOOLEAN :
          /\ ev = "chunk" => Len(gen[sid].produced) < MaxStreamChunks
          /\ GenEvent(sid, ev, t, ok)
    \/ \E sid \in StreamIds, ok \in BOOLEAN : HandleCancel(sid, ok)
    \/ \E sid \in StreamIds, ok \in BOOLEAN : CompleteStreaming(sid, ok)
    \/ \E sid \in StreamIds, ok \in BOOLEAN : FailMessage(sid, ok)

SpecStream == Init /\ [][NextStream]_vars

\* The service called directly on the one message of a chat; the stream id
\* of a user message is one the tracking dicts never hold.
NextAppend ==
    \/ \E u \in Users : CreateChat(u)
    \/ \E ch \in ChatIds, u \in Users, role \in {USER, ASSISTANT} :
          messages = <<>> /\ CreatePending(ch, u, role)
    \/ \E sid \in StreamIds, ok \in BOOLEAN : StartStreaming(sid, ok)
    \/ \E sid \in StreamIds, t \in ChunkTexts, ok \in BOOLEAN :
          /\ Len(messages[sid].partial_content) < MaxStreamChunks
          /\ UpdateStreaming(sid, t, ok)
    \/ \E sid \in StreamIds, ok \in BOOLEAN : CompleteStreaming(sid, ok)
    \/ \E sid \in StreamIds, ok \in BOOLEAN : FailMessage(sid, ok)

SpecAppend == Init /\ [][NextAppend]_vars

RECURSIVE IsSubseq(_, _)
IsSubseq(a, b) ==
    IF a = <<>> THEN TRUE
    ELSE IF b = <<>> THEN FALSE
    ELSE IF Head(a) = Head(b) THEN IsSubseq(Tail(a), Tail(b))
    ELSE IsSubseq(a, Tail(b))

\* C13: for every stream the orchestrator works on, the chunk broadcasts
\* issued so far are the chunks the engine produced, in production order, and
\* the stored partial content is the chunks whose update succeeded, in the
\* order of the update calls, which is the production order.
C13_ChunksInEngineOrder ==
    \A sid \in StreamIds :
        /\ hist.bcast[sid] = gen[sid].produced
        /\ messages[sid].partial_content = hist.applied[sid]
        /\ IsSubseq(hist.applied[sid], gen[sid].produced)

\* The engine produced two different chunks and both were applied and
\* broadcast.
C13_Witness ==
    \E sid \in StreamIds :
        /\ Len(gen[sid].produced) = 2
        /\ gen[sid].produced[1] # gen[sid].produced[2]
        /\ hist.applied[sid] = gen[sid].produced
        /\ hist.bcast[sid] = gen[sid].produced

\* C14: while a message is in status STREAMING, its partial content and its
\* content both equal the concatenation, in call order, of the chunks of the
\* update_streaming_message calls that returned True.
C14_AppendConcatenates ==
    \A sid \in StreamIds :
        messages[sid].status = STREAMING
            => /\ messages[sid].partial_content = hist.applied[sid]
               /\ messages[sid].content = hist.applied[sid]

\* update_streaming_message has just returned True for the second chunk of a
\* streaming message.
C14_Witness ==
    /\ last.op = "update_streaming_message"
    /\ last.ret = TRUE
    /\ messages[last.arg[1]].status = STREAMING
    /\ Len(hist.applied[last.arg[1]]) = 2

\* ===================================================================
\* Creating messages
\* ===================================================================
\* C15: create_pending_message called by the owner of an existing chat that is
\* not deleted returns the stored message: for role user a COMPLETE message
\* with the given content and no tracking entry, for role assistant a PENDING
\* message with empty content whose stream id no other message carries and
\* which is in pending_messages.
C15_CreatePendingByRole ==
    (/\ last.op = "create_pending_message"
     /\ last.arg[1] \in DOMAIN chat_sessions
     /\ chat_sessions[last.arg[1]].user_id = last.arg[2]
     /\ chat_sessions[last.arg[1]].status # "deleted")
        => LET id == Len(messages)
               m == messages[id]
           IN  /\ last.err = ""
               /\ last.ret = id
               /\ last.arg[3] = USER
                      => /\ m.status = COMPLETE
                         /\ m.content = UserText
                         /\ m.stream_id \notin pending_messages \cup streaming_messages
               /\ last.arg[3] = ASSISTANT
                      => /\ m.status = PENDING
                         /\ m.content = <<>>
                         /\ \A j \in DOMAIN messages :
                                j # id => messages[j].stream_id # m.stream_id
                         /\ m.stream_id \in pending_messages

\* Soft deletion of a chat by its owner: the status becomes deleted (the
\* route and the service method are not in the sources).
DeleteChat(ch, u) ==
    /\ ch \in DOMAIN chat_sessions
    /\ chat_sessions[ch].user_id = u
    /\ chat_sessions[ch].status # "deleted"
    /\ chat_sessions' = [chat_sessions EXCEPT ![ch].status = "deleted"]
    /\ last' = [op |-> "delete_chat_session", arg |-> <<ch, u>>, err |-> "",
                ret |-> "none", out |-> NoOut]
    /\ UNCHANGED <<messages, svcVars, genVars, regVars, brVars, hist>>

\* Chats are created and deleted and messages are created in them.
NextCreate ==
    \/ \E u \in Users : CreateChat(u)
    \/ \E ch \in ChatIds, u \in Users : DeleteChat(ch, u)
    \/ \E ch \in ChatIds, u \in Users, role \in {USER, ASSISTANT} :
          Len(messages) < MaxMessages /\ CreatePending(ch, u, role)
    \/ \E sid \in StreamIds, ok \in BOOLEAN : StartStreaming(sid, ok)

SpecCreate == Init /\ [][NextCreate]_vars

C17_StartStreamingOnce ==
    [][last'.op = "start_message_streaming"
          => LET sid == last'.arg[1]
             IN  /\ IF last'.ret = TRUE
                    THEN /\ messages[sid].status = PENDING
                         /\ messages'[sid].status = STREAMING
                         /\ sid \in pending_messages
                         /\ pending_messages' = pending_messages \ {sid}
                         /\ streaming_messages' = streaming_messages \cup {sid}
                    ELSE UNCHANGED <<messages, pending_messages, streaming_messages>>
                 /\ (sid \notin pending_messages \/ messages[sid].status # PENDING)
                        => last'.ret = FALSE]_vars

\* start_message_streaming has just been called again for a message that is
\* already streaming, and returned False.
C17_Witness ==
    /\ last.op = "start_message_streaming"
    /\ last.ret = FALSE
    /\ messages[last.arg[1]].status = STREAMING
    /\ last.arg[1] \in streaming_messages

\* C18: a fail_message call, or a cancel_generation command, for a message
\* that is already COMPLETE, FAILED or CANCELLED changes neither the messages
\* nor the tracking dicts nor the chat sessions.
C18_FailOnTerminalIsNoOp ==
    [][(/\ last'.op \in {"fail_message", "handle_cancel_generation"}
        /\ messages[last'.arg[1]].status \in Terminal)
          => UNCHANGED <<messages, pending_messages, streaming_messages,
                         chat_sessions>>]_vars

\* fail_message has just been called for a message that had already failed.
C18_Witness ==
    /\ last.op = "fail_message"
    /\ last.ret = FALSE
    /\ messages[last.arg[1]].status = FAILED

AckTypes == {"message_sent", "joined_chat", "left_chat", "pong", "error"}

\* C20: when a send_message, join_chat or leave_chat command on connection c
\* has been handled, exactly one acknowledgement, a success event or an error
\* event, was sent on c.
C20_OneAckPerCommand ==
    last.op \in {"handle_send_message", "join_chat_room", "leave_chat_room"}
        => Cardinality({k \in DOMAIN last.out :
                           /\ last.out[k].to = last.arg[1]
                           /\ last.out[k].type \in AckTypes}) = 1

\* ===================================================================
\* Regeneration and branch switching
\* ===================================================================
\* C21: a successful regenerate_message creates a COMPLETE message when
\* new_content was supplied and a PENDING message when it was not, whatever
\* the target message is.
C21_RegenerateStatusByContent ==
    (last.op = "regenerate_message" /\ last.err = "")
        => messages[last.ret].status =
               IF last.arg[2] # <<>> THEN COMPLETE ELSE PENDING

\* C22: a switch_conversation_branch(chat, B) call by the owner of the chat
\* returns, and returns True exactly when some message of the chat carries
\* branch id B.
C22_SwitchReturnsWhetherBranchExists ==
    (/\ last.op = "switch_conversation_branch"
     /\ switching.pc = "idle"
     /\ last.err # "NotFound")
        => /\ last.err = ""
           /\ last.ret = (\E i \in ChatMessages(World, last.arg[1]) :
                              messages[i].branch_id = last.arg[2])

\* get_conversation_branches: ownership check, then the branch ids of the
\* chat's messages (None filtered out), as a sorted list.
get_conversation_branches(w, chat_id, user) ==
    IF ~get_chat_session(w, chat_id, user) THEN [w EXCEPT !.err = "NotFound"]
    ELSE [w EXCEPT !.ret = SortedIds({w.messages[i].branch_id :
                                         i \in ChatMessages(w, chat_id)} \ {0})]

GetBranches(ch, u) ==
    /\ Commit(get_conversation_branches(World, ch, u),
              "get_conversation_branches", <<ch, u>>)
    /\ UNCHANGED <<genVars, regVars, brVars, hist>>

\* The branch manager called by the owner and by the other user.
NextOwner ==
    \/ \E u \in Users : CreateChat(u)
    \/ \E ch \in ChatIds, u \in Users, role \in {USER, ASSISTANT} :
          Len(messages) < MaxMessages /\ CreatePending(ch, u, role)
    \/ \E mid \in DOMAIN messages, u \in Users, nc \in {<<>>, <<"e">>} :
          Len(messages) < MaxMessages /\ Regenerate(mid, u, nc)
    \/ \E ch \in ChatIds, b \in 1..MaxMessages, u \in Users :
          SwitchBranch(ch, b, u)
    \/ SwitchBranchActivate
    \/ \E ch \in ChatIds, u \in Users : GetActiveMessages(ch, u)
    \/ \E ch \in ChatIds, u \in Users : GetBranches(ch, u)

SpecOwner == Init /\ [][NextOwner]_vars

\* C23: a regenerate_message, switch_conversation_branch,
\* get_conversation_branches or get_active_messages call by a user who does
\* not own the chat concerned ends with the not-found error, as for a chat
\* that does not exist, and leaves all messages unchanged.
C23_NonOwnerGetsNotFound ==
    [][LET op == last'.op
           caller == IF op \in {"regenerate_message", "switch_conversation_branch"}
                     THEN last'.arg[3] ELSE last'.arg[2]
           chat == IF op = "regenerate_message"
                   THEN messages[last'.arg[1]].chat_session_id
                   ELSE last'.arg[1]
       IN  (/\ op \in {"regenerate_message", "switch_conversation_branch",
                        "get_conversation_branches", "get_active_messages"}
            /\ chat \in DOMAIN chat_sessions
            /\ chat_sessions[chat].user_id # caller)
              => /\ last'.err = "NotFound"
                 /\ messages' = messages]_vars

\* ===================================================================
\* Engine failures
\* ===================================================================
\* The orchestrator on the one assistant message of a chat, with connections
\* that join the chat's room, and its cancel handler.
NextEngine ==
    \/ \E u \in Users : CreateChat(u)
    \/ \E c \in ConnIds, ch \in ChatIds \cup {0} : Connect(c, ch)
    \/ \E ch \in ChatIds, u \in Users :
          messages = <<>> /\ CreatePending(ch, u, ASSISTANT)
    \/ \E sid \in StreamIds : GenInvoke(sid)
    \/ \E sid \in StreamIds, ok, streaming \in BOOLEAN : GenBegin(sid, ok, streaming)
    \/ \E sid \in StreamIds, ev \in {"chunk", "complete", "error", "raise"},
          t \in ChunkTexts, ok \in BOOLEAN :
          /\ ev = "chunk" => Len(gen[sid].produced) < MaxChunks
          /\ GenEvent(sid, ev, t, ok)
    \/ \E sid \in StreamIds, res \in {"success", "failure", "raise"},
          ok \in BOOLEAN : GenFallback(sid, res, ok)
    \/ \E sid \in StreamIds, ok \in BOOLEAN : HandleCancel(sid, ok)

SpecEngine == Init /\ [][NextEngine]_vars

ConnectRejected_after_connect(c) ==
    /\ sock[c] = "new"
    /\ CommitRegistry(connect(Registry, ConnUser(c), c))
    /\ Called("connect_rejected", <<c>>, "none", NoOut)
    /\ sock' = [sock EXCEPT ![c] = "rejected"]
    /\ UNCHANGED otherVars

\* The endpoint called with a token that get_websocket_user rejects: the
\* HTTPException leaves the try before connect, the handler closes the socket
\* with code 4001 and the endpoint returns.
ConnectRejected(c) ==
    /\ sock[c] = "new"
    /\ sock' = [sock EXCEPT ![c] = "rejected"]
    /\ Called("connect_rejected", <<c>>, "none", NoOut)
    /\ UNCHANGED <<active_connections, chat_rooms, connection_users, otherVars>>

NextAuth ==
    \/ \E c \in ConnIds : ConnectRejected(c)
    \/ \E c \in ConnIds, ch \in ChatIds \cup {0} : Connect(c, ch)
    \/ \E c \in ConnIds : ClientDisconnect(c)
    \/ \E c \in ConnIds, u \in Users : ForceDisconnect(c, u)
    \/ \E u \in Users, raises \in BOOLEAN : NotifyUser(u, raises)
    \/ \E c \in ConnIds, ch \in ChatIds : JoinChat(c, ch)
    \/ \E c \in ConnIds, ch \in ChatIds : LeaveChat(c, ch)
    \/ \E u \in Users : CreateChat(u)

SpecAuth == Init /\ [][NextAuth]_vars

\* C25: a connection is in the connection table only when its token was
\* accepted; a connection whose token was rejected is closed and is in neither
\* active_connections nor connection_users nor any chat room, whatever the
\* other connections do afterwards.
C25_RegisteredOnlyAfterAuth ==
    \A c \in ConnIds :
        /\ sock[c] \in {"new", "rejected"} => Unregistered(c)
        /\ ~Unregistered(c) => sock[c] \in {"open", "closed"}

C25_Witness ==
    \E c, d \in ConnIds :
        /\ sock[c] = "rejected"
        /\ sock[d] = "open"
        /\ ConnUser(d) = ConnUser(c)
        /\ d \in active_connections[ConnUser(d)]
        /\ RoomsOf(d) # {}

\* C26: a send_message whose content is empty or only whitespace gets one
\* error event on the sending connection and nothing else: no message is
\* stored, nothing is sent to the room, nothing is tracked and no generation
\* is started.
C26_BlankSendIsRejected ==
    [][(/\ last'.op = "handle_send_message"
        /\ \A k \in DOMAIN last'.arg[3] : last'.arg[3][k] = " ")
           => /\ last'.out = <<Event(last'.arg[1], "error")>>
              /\ messages' = messages
              /\ chat_sessions' = chat_sessions
              /\ pending_messages' = pending_messages
              /\ streaming_messages' = streaming_messages
              /\ active_generations' = active_generations
              /\ gen' = gen]_vars

C26_Witness ==
    /\ last.op = "handle_send_message"
    /\ last.arg[3] = <<" ">>
    /\ get_chat_session(World, last.arg[2], ConnUser(last.arg[1]))
    /\ \E B \in Users \ {ConnUser(last.arg[1])} :
           /\ chat_rooms[last.arg[2]][B] # 0
           /\ _get_user_connection(Registry, B, chat_rooms[last.arg[2]][B])
    /\ last.out = <<Event(last.arg[1], "error")>>

\* ===================================================================
\* The message loop of one connection
\* ===================================================================
\* The loop awaits each handler before it calls receive_text again, and
\* handle_send_message and handle_regenerate_message await the orchestrator:
\* while a generation started from the connection is in progress the loop
\* reads nothing.
InProgress(sid) == gen[sid].pc \in {"begin", "stream", "fallback"}

LoopIdle == \A s \in MsgIds : ~InProgress(s)

\* The client sends cancel_generation for stream sid while its generation is
\* in progress: the message waits in the socket.  mark: the number of chunks
\* applied so far.
CancelArrives(sid) ==
    /\ InProgress(sid)
    /\ sid \notin hist.arrived
    /\ hist' = [hist EXCEPT !.arrived = @ \cup {sid},
                            !.mark[sid] = Len(hist.applied[sid])]
    /\ last' = [op |-> "cancel_arrives", arg |-> <<sid>>, err |-> "",
                ret |-> "none", out |-> NoOut]
    /\ UNCHANGED <<storeVars, svcVars, genVars, regVars, brVars>>

\* The loop is at receive_text, reads a cancel_generation message and awaits
\* its handler.
LoopCancel(sid, ok) ==
    /\ LoopIdle
    /\ HandleCancel(sid, ok)

\* The loop reads a message that makes its handler run the orchestrator.
LoopGenerate(sid) ==
    /\ LoopIdle
    /\ GenInvoke(sid)

NextLoop ==
    \/ \E u \in Users : CreateChat(u)
    \/ \E ch \in ChatIds, u \in Users :
          messages = <<>> /\ CreatePending(ch, u, ASSISTANT)
    \/ \E sid \in StreamIds : LoopGenerate(sid)
    \/ \E sid \in StreamIds, ok, streaming \in BOOLEAN : GenBegin(sid, ok, streaming)
    \/ \E sid \in StreamIds, ev \in {"chunk", "complete", "error", "raise"},
          t \in ChunkTexts, ok \in BOOLEAN :
          /\ ev = "chunk" => Len(gen[sid].produced) < MaxStreamChunks
          /\ GenEvent(sid, ev, t, ok)
    \/ \E sid \in StreamIds, res \in {"success", "failure", "raise"},
          ok \in BOOLEAN : GenFallback(sid, res, ok)
    \/ \E sid \in StreamIds : CancelArrives(sid)
    \/ \E sid \in StreamIds, ok \in BOOLEAN : LoopCancel(sid, ok)

SpecLoop == Init /\ [][NextLoop]_vars

\* C27: when a cancel_generation for stream S arrived on the connection while
\* S's generation was in progress, at most one chunk is applied to S after the
\* arrival, and the generation does not finish without the cancel having been
\* processed.
C27_CancelReadDuringGeneration ==
    \A sid \in hist.arrived :
        /\ Len(hist.applied[sid]) <= hist.mark[sid] + 1
        /\ gen[sid].pc = "done" => sid \in hist.cancelled

\* ===================================================================
\* The loop after the client has gone
\* ===================================================================
\* The loop of a connection whose transport has gone meets the disconnect:
\* receive_text raises WebSocketDisconnect, `except Exception` inside the loop
\* catches it, the error event is sent through send_to_connection, which
\* swallows the failure, and the loop goes round again (every later
\* receive_text raises RuntimeError into the same branch).
\* connection_manager.disconnect is not called.  hist.noticed: the
\* connections whose loop has met the disconnect.
LoopError(c) ==
    /\ sock[c] = "closed"
    /\ c \notin hist.noticed
    /\ hist' = [hist EXCEPT !.noticed = @ \cup {c}]
    /\ UNCHANGED <<active_connections, chat_rooms, connection_users, sock,
                   storeVars, svcVars, genVars, brVars>>
    /\ Called("loop_error", <<c>>, "none", <<Event(c, "error")>>)

NextDisconnect ==
    \/ \E c \in ConnIds, ch \in ChatIds \cup {0} : Connect(c, ch)
    \/ \E c \in ConnIds, ch \in ChatIds : JoinChat(c, ch)
    \/ \E c \in ConnIds, ch \in ChatIds : LeaveChat(c, ch)
    \/ \E c \in ConnIds : ClientDisconnect(c)
    \/ \E c \in ConnIds : LoopError(c)

\* The endpoint's task of every connection keeps running.  No REST call
\* (force_disconnect, notify_user) is made in these runs.
SpecDisconnect ==
    /\ Init
    /\ [][NextDisconnect]_vars
    /\ \A c \in ConnIds : WF_hist(LoopError(c))

\* C28: a connection whose client transport has gone is eventually in neither
\* the connection table nor any chat room.
C28_DisconnectEventuallyUnregisters ==
    \A c \in ConnIds : (sock[c] = "closed") ~> Unregistered(c)

\* ===================================================================
\* A broadcast with other tasks running at its awaits
\* ===================================================================
\* broadcast_to_chat is a `for` over self.chat_rooms[chat_id].items() with an
\* await of send_to_connection in its body: while a send is awaited other
\* tasks run and may call join_chat_room, leave_chat_room or disconnect.
RoomSize(r, chat_id) == Cardinality({u \in Users : r.chat_rooms[chat_id][u] # 0})

\* The dict iterator from a resumption to its next send or to its end.  size
\* is the size the dict had when the iteration began: the iterator raises
\* RuntimeError when the size it finds differs.  visited: the users whose
\* entry it has passed.  (An entry of the same size in a room that was
\* emptied and created again in between is taken as the old one.)
RECURSIVE iterate(_, _, _, _, _)
iterate(r, chat_id, exclude_user, visited, size) ==
    IF RoomSize(r, chat_id) # size THEN [pc |-> "raised", visited |-> visited, to |-> 0]
    ELSE LET cand == {k \in DOMAIN UserOrder :
                         /\ UserOrder[k] \notin visited
                         /\ r.chat_rooms[chat_id][UserOrder[k]] # 0}
         IN  IF cand = {} THEN [pc |-> "done", visited |-> visited, to |-> 0]
             ELSE LET k == CHOOSE x \in cand : \A y \in cand : x <= y
                      user_id == UserOrder[k]
                      connection_id == r.chat_rooms[chat_id][user_id]
                  IN  IF (exclude_user # "none" /\ user_id = exclude_user)
                         \/ ~_get_user_connection(r, user_id, connection_id)
                      THEN iterate(r, chat_id, exclude_user,
                                   visited \cup {user_id}, size)
                      ELSE [pc |-> "sending", visited |-> visited \cup {user_id},
                            to |-> connection_id]

\* One stretch of a broadcast, from it (its start or a resumption) to its
\* next await or its end.
BroadcastStep(chat_id, visited, size, room0, out) ==
    LET it == iterate(Registry, chat_id, "none", visited, size)
        sent == IF it.pc = "sending" THEN out \o <<Event(it.to, "broadcast")>> ELSE out
    IN  /\ broadcasting' =
               IF it.pc = "sending"
               THEN [pc |-> "sending", chat |-> chat_id, visited |-> it.visited,
                     size |-> size, room0 |-> room0, out |-> sent]
               ELSE [pc |-> "idle"]
        /\ last' = [op |-> IF it.pc = "sending" THEN "broadcast_send"
                           ELSE "broadcast_to_chat",
                    arg |-> <<chat_id, "none">>,
                    err |-> IF it.pc = "raised" THEN "RuntimeError" ELSE "",
                    ret |-> "none", out |-> sent]

\* REST broadcast by user u, up to its first await.
BroadcastBegin(u, ch) ==
    /\ broadcasting.pc = "idle"
    /\ get_chat_session(World, ch, u)
    /\ BroadcastStep(ch, {}, RoomSize(Registry, ch), chat_rooms[ch], <<>>)
    /\ UNCHANGED <<storeVars, svcVars, genVars, regVars, switching, hist>>

\* The awaited send returns and the loop goes on.
BroadcastResume ==
    /\ broadcasting.pc = "sending"
    /\ BroadcastStep(broadcasting.chat, broadcasting.visited, broadcasting.size,
                     broadcasting.room0, broadcasting.out)
    /\ UNCHANGED <<storeVars, svcVars, genVars, regVars, switching, hist>>

NextBroadcast ==
    \/ \E u \in Users : CreateChat(u)
    \/ \E c \in ConnIds, ch \in ChatIds \cup {0} : Connect(c, ch)
    \/ \E c \in ConnIds, ch \in ChatIds : JoinChat(c, ch)
    \/ \E c \in ConnIds, ch \in ChatIds : LeaveChat(c, ch)
    \/ \E c \in ConnIds, u \in Users : ForceDisconnect(c, u)
    \/ \E u \in Users, ch \in ChatIds : BroadcastBegin(u, ch)
    \/ BroadcastResume

SpecBroadcast == Init /\ [][NextBroadcast]_vars

\* C29: a broadcast during whose sends other tasks joined, left or
\* unregistered ends without an exception, and it has made a send to every
\* connection that was in the room when it began and is still there, with its
\* connection in the table, when it ends.
C29_BroadcastUnderInterleaving ==
    [][(broadcasting.pc = "sending" /\ broadcasting'.pc = "idle")
          => /\ last'.err = ""
             /\ \A u \in Users :
                    LET c == broadcasting.room0[u]
                    IN  (/\ c # 0
                         /\ chat_rooms'[broadcasting.chat][u] = c
                         /\ _get_user_connection(Registry, u, c))
                            => \E k \in DOMAIN last'.out : last'.out[k].to = c]_vars

\* C30: the orchestrator calls complete_streaming_message only for a stream
\* id that is in active_generations at that moment, on the streaming path and
\* on the fallback path, and a stream it finds absent from active_generations
\* is finalised as CANCELLED.
C30_CompleteOnlyWhileActive ==
    [][/\ last'.op = "gen_complete" => last'.arg[1] \in active_generations
       /\ last'.op = "gen_cancelled" => messages'[last'.arg[1]].status = CANCELLED]_vars

C32_BroadcastReachesEveryConnection ==
    [][\A c \in ConnIds :
          LET d == last'.arg[1]
              ch == last'.arg[2]
              u == ConnUser(c)
              out == broadcast_to_chat(
                         [active_connections |-> active_connections',
                          chat_rooms |-> chat_rooms',
                          connection_users |-> connection_users'],
                         ch, "broadcast", "none")
          IN  (/\ last'.op = "join_chat_room"
               /\ c # d
               /\ ConnUser(d) = u
               /\ chat_rooms[ch][u] = c
               /\ c \in active_connections[u]
               /\ d \in active_connections[u]
               /\ sock[c] = "open"
               /\ sock[d] = "open")
                  => /\ \E k \in DOMAIN out : out[k].to = c
                     /\ \E k \in DOMAIN out : out[k].to = d]_vars

\* ===================================================================
\* Who is in a room
\* ===================================================================
\* C33: every user with an entry in the room of an existing chat owns that
\* chat, and a new_message event of a send_message to a chat is sent only to
\* connections of the chat's owner.
C33_RoomMembersOwnTheChat ==
    /\ \A ch \in DOMAIN chat_sessions, u \in Users :
           chat_rooms[ch][u] # 0 => chat_sessions[ch].user_id = u
    /\ last.op = "handle_send_message"
           => \A k \in DOMAIN last.out :
                  last.out[k].type = "new_message"
                      => chat_sessions[last.arg[2]].user_id = ConnUser(last.out[k].to)

\* C34: in every state, each entry of a chat room names a connection that is
\* in the connection table of the entry's user and that connection_users maps
\* to that user.
C34_RoomEntriesAreRegistered ==
    \A ch \in ChatIds, u \in Users :
        chat_rooms[ch][u] # 0
            => /\ chat_rooms[ch][u] \in active_connections[u]
               /\ connection_users[chat_rooms[ch][u]] = u

\* ===================================================================
\* The trunk in the active view
\* ===================================================================
\* C35: whatever regenerate, fork and switch calls came before, a
\* get_active_messages call by the owner of a chat returns, and what it
\* returns contains every message of the chat that has no branch descriptor.
C35_TrunkAlwaysInActiveView ==
    (/\ last.op = "get_active_messages"
     /\ get_chat_session(World, last.arg[1], last.arg[2]))
        => /\ last.err = ""
           /\ \A i \in ChatMessages(World, last.arg[1]) :
                  messages[i].branch_id = 0
                      => \E k \in DOMAIN last.ret : last.ret[k] = i

\* ===================================================================
\* Sending into a chat with an active branch
\* ===================================================================
\* send_message commands on connections, and regenerations that open
\* branches in the chats.
NextAttach ==
    \/ \E u \in Users : CreateChat(u)
    \/ \E c \in ConnIds, ch \in ChatIds \cup {0} : Connect(c, ch)
    \/ \E c \in ConnIds, ch \in ChatIds, content \in SentTexts,
          available \in BOOLEAN :
          Len(messages) < MaxBranchMessages /\ HandleSendMessage(c, ch, content, available)
    \/ \E mid \in DOMAIN messages, u \in Users, nc \in {<<>>, <<"e">>} :
          Len(messages) < MaxBranchMessages /\ Regenerate(mid, u, nc)

SpecAttach == Init /\ [][NextAttach]_vars

\* C36: when a send_message command has stored its user message in a chat in
\* which a branch is active, the new message carries the id of that branch.
C36_SentMessageJoinsActiveBranch ==
    (/\ last.op = "handle_send_message"
     /\ last.out # <<>>
     /\ last.out[1].type = "message_sent"
     /\ ActiveBranchIds(last.arg[2]) # {})
        => messages[last.ret].branch_id \in ActiveBranchIds(last.arg[2])

RECURSIVE fail_generations(_, _)
fail_generations(w, stream_ids) ==
    IF stream_ids = {} THEN w
    ELSE LET stream_id == CHOOSE s \in stream_ids : \A t \in stream_ids : s <= t
             f == fail_message(FreshService(w), stream_id,
                               <<"Connection disconnected">>, TRUE)
         IN  fail_generations([f EXCEPT
                                  !.pending_messages = w.pending_messages,
                                  !.streaming_messages = w.streaming_messages,
                                  !.ret = "none"],
                              stream_ids \ {stream_id})

\* The branch run for connection c, whose transport has gone.
HandleDisconnect(c) ==
    /\ sock[c] = "closed"
    /\ connection_users[c] # "none"
    /\ LET w == fail_generations(World, active_generations)
           r == disconnect(Registry, c)
       IN  /\ messages' = w.messages
           /\ chat_sessions' = w.chat_sessions
           /\ active_connections' = r.active_connections
           /\ chat_rooms' = r.chat_rooms
           /\ connection_users' = r.connection_users
    /\ Called("websocket_disconnect", <<c>>, "none", NoOut)
    /\ UNCHANGED <<svcVars, genVars, sock, brVars, hist>>

\* The orchestrator started from a connection, the client going away, and the
\* disconnect branch run for the connection.
NextGone ==
    \/ \E u \in Users : CreateChat(u)
    \/ \E c \in ConnIds, ch \in ChatIds \cup {0} : Connect(c, ch)
    \/ \E ch \in ChatIds, u \in Users :
          messages = <<>> /\ CreatePending(ch, u, ASSISTANT)
    \/ \E sid \in StreamIds : GenInvoke(sid)
    \/ \E sid \in StreamIds, ok, streaming \in BOOLEAN : GenBegin(sid, ok, streaming)
    \/ \E sid \in StreamIds, ev \in {"chunk", "complete", "error", "raise"},
          t \in ChunkTexts, ok \in BOOLEAN :
          /\ ev = "chunk" => Len(gen[sid].produced) < MaxChunks
          /\ GenEvent(sid, ev, t, ok)
    \/ \E sid \in StreamIds, res \in {"success", "failure", "raise"},
          ok \in BOOLEAN : GenFallback(sid, res, ok)
    \/ \E c \in ConnIds : ClientDisconnect(c)
    \/ \E c \in ConnIds : HandleDisconnect(c)

SpecGone == Init /\ [][NextGone]_vars

\* C38: after the disconnect branch has run for a connection, every stream
\* that was in active_generations has its message in a terminal status and is
\* in neither pending_messages nor streaming_messages.
C38_DisconnectEndsGenerations ==
    [][last'.op = "websocket_disconnect"
          => \A sid \in active_generations :
                 /\ messages'[TrackedMessage(sid)].status \in Terminal
                 /\ sid \notin pending_messages' \cup streaming_messages']_vars

\* ===================================================================
\* Content and status
\* ===================================================================
\* C39: in every state a message with empty content is PENDING or STREAMING,
\* a COMPLETE message of role user has non-empty content, and a FAILED or
\* CANCELLED message carries the text of its reason.
C39_EmptyContentOnlyInProgress ==
    \A i \in DOMAIN messages :
        /\ messages[i].content = <<>> => messages[i].status \in {PENDING, STREAMING}
        /\ (messages[i].status = COMPLETE /\ messages[i].role = USER)
               => messages[i].content # <<>>
        /\ messages[i].status \in {FAILED, CANCELLED}
               => /\ Len(messages[i].content) > 1
                  /\ messages[i].content[1] = "Error: "

\* C40: after a create_conversation_branch call has returned, no message of
\* the parent's chat has its is_active_branch flag set.  (The call inserts
\* and activates nothing, so a branch that is active afterwards is a branch
\* that was active before.)
C40_ForkDeactivatesActiveBranch ==
    (last.op = "create_conversation_branch" /\ last.err = "")
        => \A i \in ChatMessages(World, messages[last.arg[1]].chat_session_id) :
               messages[i].branch_id # 0 => ~messages[i].is_active_branch


============================================================================
